---- MODULE Spec2Model ----
(***************************************************************************)
(* Hot-upgrade runtime: EmptyDeviceDomainProxy (dual-path dispatcher and   *)
(* replace), SRcuData (pointer cell), DomainSyscall::sys_update_domain,    *)
(* RRef (tagged shared-heap handle).                                       *)
(*                                                                         *)
(* Spec: the proxy with callers and one updater thread.  SpecBackToBack:   *)
(* the same with two updater threads.                                      *)
(* SpecRRef: one RRef handle.  SpecSRcu: one SRcuData cell with readers    *)
(* and writers.                                                            *)
(*                                                                         *)
(* Every shared-memory access of the code is one step.  The flag and the   *)
(* implementation pointer are two memory locations with no ordering        *)
(* between them: flag is stored and loaded Relaxed, the fast path takes no *)
(* lock, so a thread may observe the stores to one location later than     *)
(* the stores to the other.  Each location keeps its stores in             *)
(* modification order; a load returns any store the thread has not yet     *)
(* seen superseded; acquiring a mutex brings the thread up to date.        *)
(***************************************************************************)
EXTENDS Integers, FiniteSets, Sequences, TLC

\* ------------------------------------------------------------------ bounds

\* System calls (sys_update_domain, sys_backtrace) in one run, all threads
\* together.
MaxUpdates == 1

\* Largest magnitude of one per-CPU shard (a thread may increment on one CPU
\* and decrement on another, so a shard drifts).
MaxShard == 1

\* move_to calls on one RRef handle.
MaxMoves == 2

\* update / update_directly calls on one SRcuData cell.
MaxInstalls == 2

\* Explicit custom_drop calls on one RRef handle.
MaxCustomDrops == 2

\* Blocks the shared heap can hold.
MaxBlocks == 2

\* ------------------------------------------------------------- constants

\* u64::MAX, the id of the placeholder implementation (ids are scaled to 8 bits).
U64_MAX == 255

\* An unspecified value read through a dangling implementation pointer.
GARBAGE == U64_MAX - 1

Callers == {"c1"}
Updaters == {"u1", "u2"}
Threads == Callers \cup Updaters
CPUs == {0, 1}
NoThread == "none"
Names == {"nd", "zz"}

\* Box<dyn EmptyDeviceDomain>: an implementation object.  uid is the id the
\* creator allocated; empty marks EmptyDeviceDomainEmptyImpl.
NoImpl == [uid |-> 0, empty |-> FALSE]
InitialImpl == [uid |-> 1, empty |-> FALSE]

Methods == {"domain_id", "init", "read", "write"}

\* crate::domain_id() in the domain of the callers: the tag RRef::new gives a
\* block they allocate.  Ids handed out by the creator stay below it.
CurrentDomainId == 100

VARIABLES
  flag,         \* EmptyDeviceDomainProxy.flag (upgrading)
  lock,         \* holder of EmptyDeviceDomainProxy.lock (write_lock)
  loader_lock,  \* holder of EmptyDeviceDomainProxy.domain_loader's mutex
  loader,       \* the DomainLoader record (uid of the image it loaded)
  domain,       \* SRcuData.crcu_data.data_ptr: the installed implementation
  counter,      \* LongLongPerCpu shards
  released,     \* uids whose box and domain resources were freed
  domain_list,  \* DOMAIN_INFO.domain_list: id -> DomainDataInfo
  next_id,      \* the creator's next domain id
  started,      \* sys_update_domain and sys_backtrace invocations so far
  budget,       \* the run (constant): invocations of the two it may make, threads that update
  pc,           \* position of each thread
  site,         \* which call site the proxy call in progress returns to
  method,       \* method of the proxy call in progress
  ptr,          \* implementation pointer a call loaded (read_directly)
  ret,          \* result of the thread's last proxy call
  loc,          \* locals of sys_update_domain / replace per updater
  seen,         \* history: what a call's flag load witnessed
  flag_by,      \* history: the replace that last stored flag=true
  last_inst,    \* history: implementation installed by the last replace that cleared flag
  rr,           \* per caller: the RRefVec it passes to read (live, tag slot, _read's old_id)
  last_update,  \* history: the last sys_update_domain that returned Ok(())
  flag_old,     \* the overwritten stores to flag, oldest first
  domain_old,   \* the overwritten stores to data_ptr, oldest first
  behind,       \* per thread and location: newest stores it has not observed yet
  \* --- one RRef handle on its own (rref.rs)
  rref_state,     \* "none" (not constructed), "alive", "dropped"
  domain_id_slot, \* *domain_id_pointer
  exist,          \* RRef.exist (set: ownership surrendered, drop does nothing)
  tag0,           \* history: the tag written at construction
  calls,          \* history: the move_to calls made, in order
  drop_log,       \* history: what Drop::drop did, in order
  custom_log,     \* history: what the explicit custom_drop calls on the handle did
  \* --- one SRcuData cell on its own (srcu.rs)
  data_ptr,       \* crcu_data.data_ptr: the value installed
  next_val,       \* the next value a caller passes to update
  s_pc,           \* position of each reader and writer
  s_mode,         \* the method the thread is in
  s_ptr,          \* reader: the pointer it dereferenced (0: none)
  old_ptr,        \* writer: local old_ptr
  new_ptr,        \* writer: local new_ptr
  waiting,        \* writer: readers its synchronize_srcu still waits for
  finished,       \* writer: its last call that returned (kind, new, old, idx)
  installs,       \* history: the values installed, in order
  loaded_at,      \* history: how many installs had happened when a reader loaded
  overlap,        \* history: read() sections open at the writer's assign, not yet exited
  waited_for,     \* history: the readers the writer's synchronize_srcu had to wait for
  \* --- RRef construction (rref.rs, new_with_layout)
  drop_registry,  \* DROP: TypeId -> DropFn
  heap,           \* blocks of the shared heap, in order of allocation
  n_pc,           \* position of each constructing thread
  n_args,         \* its call: constructor variant, T, crate::domain_id()
  n_handle        \* the RRef it was returned (block 0: none)

\* The proxy, its callers and the updaters.
proxyvars == <<flag, lock, loader_lock, loader, domain, counter, released, domain_list,
               next_id, started, budget, pc, site, method, ptr, ret, loc, seen, flag_by,
               last_inst, rr, last_update, flag_old, domain_old, behind>>

\* The two locations as the threads observe them.
memory == <<flag_old, domain_old, behind>>

rrefvars == <<rref_state, domain_id_slot, exist, tag0, calls, drop_log, custom_log>>

\* The components that are exercised on their own.
srcuvars == <<data_ptr, next_val, s_pc, s_mode, s_ptr, old_ptr, new_ptr, waiting,
              finished, installs, loaded_at, overlap, waited_for>>

ctorvars == <<drop_registry, heap, n_pc, n_args, n_handle>>

standalone == <<rrefvars, srcuvars, ctorvars>>

vars == <<proxyvars, standalone>>

shared == <<flag, lock, loader_lock, loader, domain, counter, released, domain_list,
            next_id, started, budget>>
hist == <<seen, flag_by, last_inst>>

\* ------------------------------------------------------------ pure helpers

\* Basic::domain_id of an implementation object.
DomainIdOf(i) == IF i.empty THEN U64_MAX ELSE i.uid

\* LinuxResult of EmptyDeviceDomain::read / write / init on an implementation.
ImplResult(i, m) ==
  IF m = "domain_id" THEN "id"
  ELSE IF m = "init" THEN "Ok"
  ELSE IF i.empty THEN "ENOSYS" ELSE "Ok"

\* What a proxy call hands back: the id the implementation reported (used to
\* retag the argument of read), the implementation that executed the method,
\* and the method's result.
CallResult(i, m) == [id |-> DomainIdOf(i), by |-> i.uid, res |-> ImplResult(i, m)]
GarbageResult == [id |-> GARBAGE, by |-> 0, res |-> "garbage"]
NoResult == [id |-> 0, by |-> 0, res |-> "none"]
CrashResult == [id |-> 0, by |-> 0, res |-> "crash"]

\* Outcomes of running a method through pointer i: defined when the object is
\* alive; when it was freed (use after free) the call returns what the object
\* computes, returns anything, or the thread faults on the freed box and never
\* returns.
Outcomes(i, m) ==
  IF i.uid \in released THEN {CallResult(i, m), GarbageResult, CrashResult}
                         ELSE {CallResult(i, m)}

NoLoc == [old_domain_id |-> 0, id |-> 0, new |-> NoImpl, init_ok |-> TRUE, old_id |-> 0,
          new_domain_id |-> 0, old_domain |-> NoImpl, name |-> "nd",
          acc |-> 0, idx |-> 0, saw_zero |-> FALSE, result |-> "none",
          requests |-> <<>>, destructed |-> {}]

NoSeen == [flag |-> FALSE, inst |-> NoImpl, by |-> NoThread]

\* A thread that has observed the newest store to flag and to data_ptr.
UpToDate == [flag |-> 0, domain |-> 0]

NoUpdate == [by |-> NoThread, name |-> "", old_domain_id |-> 0, id |-> 0, new |-> NoImpl,
             before |-> <<>>, after |-> <<>>]

\* Mutant: move_to returns the tag it wrote.
MoveTo_ReturnsNew(tag, new_domain_id) == [tag |-> new_domain_id, old |-> new_domain_id]

\* SharedData::move_to on a tag slot holding tag: the slot afterwards and the
\* value returned (the tag read before the write).
MoveTo(tag, new_domain_id) == [tag |-> new_domain_id, old |-> tag]

\* RRef::new_with_layout: *domain_id_pointer = crate::domain_id(), exist false.
NewRRef(id) == [live |-> TRUE, tag |-> id, old_id |-> 0]
NoRRef == [live |-> FALSE, tag |-> 0, old_id |-> 0]

\* No handle constructed yet.
InitRRef ==
  /\ rref_state = "none"
  /\ domain_id_slot = 0
  /\ exist = FALSE
  /\ tag0 = 0
  /\ calls = <<>>
  /\ drop_log = <<>>
  /\ custom_log = <<>>

SReaders == {"r1", "r2"}
SWriters == {"w1", "w2"}
NoCall == [kind |-> "none", new |-> 0, old |-> 0, idx |-> 0]

\* SRcuData::new(data): the first value is installed, nobody is inside.
InitSRcu ==
  /\ data_ptr = 1
  /\ next_val = 2
  /\ s_pc = [t \in SReaders \cup SWriters |-> "idle"]
  /\ s_mode = [t \in SReaders \cup SWriters |-> "none"]
  /\ s_ptr = [r \in SReaders |-> 0]
  /\ old_ptr = [w \in SWriters |-> 0]
  /\ new_ptr = [w \in SWriters |-> 0]
  /\ waiting = [w \in SWriters |-> {}]
  /\ finished = [w \in SWriters |-> NoCall]
  /\ installs = <<1>>
  /\ loaded_at = [r \in SReaders |-> 0]
  /\ overlap = [w \in SWriters |-> {}]
  /\ waited_for = [w \in SWriters |-> {}]

Ctors == {"k1", "k2"}
TypeIds == {"T1", "T2"}
Variants == {"new", "new_aligned", "new_uninit", "new_uninit_aligned"}
NoArgs == [variant |-> "none", type |-> "none", domain |-> 0]
NoHandle == [block |-> 0, exist |-> FALSE]

\* crate::domain_id() of the domain each constructing thread runs in.
DomainOfCtor(k) == IF k = "k1" THEN 1 ELSE CurrentDomainId

\* static DROP = Mutex::new(BTreeMap::new()); an empty shared heap.
InitCtor ==
  /\ drop_registry = <<>>
  /\ heap = <<>>
  /\ n_pc = [k \in Ctors |-> "idle"]
  /\ n_args = [k \in Ctors |-> NoArgs]
  /\ n_handle = [k \in Ctors |-> NoHandle]

InitWith(n, U) ==
  /\ budget = [calls |-> n, threads |-> U]
  /\ flag = FALSE
  /\ lock = NoThread
  /\ loader_lock = NoThread
  /\ loader = 1
  /\ domain = InitialImpl
  /\ counter = [c \in CPUs |-> 0]
  /\ released = {}
  /\ domain_list = [k \in {1, CurrentDomainId} |->
                      [name |-> IF k = 1 THEN "nd" ELSE "app", panic_count |-> 0]]
  /\ next_id = 2
  /\ started = 0
  /\ pc = [t \in Threads |-> IF t \in Callers THEN "idle" ELSE "u_idle"]
  /\ site = [t \in Threads |-> IF t \in Callers THEN "caller" ELSE "query"]
  /\ method = [t \in Threads |-> "domain_id"]
  /\ ptr = [t \in Threads |-> NoImpl]
  /\ ret = [t \in Threads |-> NoResult]
  /\ loc = [u \in Updaters |-> NoLoc]
  /\ seen = [t \in Threads |-> NoSeen]
  /\ flag_by = [by |-> NoThread, old |-> NoImpl]
  /\ last_inst = NoImpl
  /\ rr = [t \in Callers |-> NoRRef]
  /\ last_update = NoUpdate
  /\ flag_old = <<>>
  /\ domain_old = <<>>
  /\ behind = [t \in Threads |-> UpToDate]
  /\ InitRRef
  /\ InitSRcu
  /\ InitCtor

\* One thread making the system calls, against concurrent callers.
Init == InitWith(MaxUpdates, {"u1"})

\* One more call, and every updater thread: replaces back to back, or
\* concurrently.
InitBackToBack == InitWith(MaxUpdates + 1, Updaters)

\* ------------------------------------------------ proxy call, per thread

\* The dispatcher's branch on the value it loaded from flag.
Dispatch(f) == IF f THEN "lock_wait" ELSE "inc"

\* The store a load returns when it observes the one k stores before the
\* newest (cur: the newest store, old: the overwritten ones, oldest first).
StoreAt(cur, old, k) == IF k = 0 THEN cur ELSE old[Len(old) + 1 - k]

\* A load of location l by thread t observed the store k before the newest:
\* the thread cannot observe an older one afterwards.
Observed(b, t, l, k) == [b EXCEPT ![t][l] = k]

\* Thread u stored to location l: u has the store, every other thread has
\* one more store of l it has not observed.
Published(b, u, l) ==
  [t \in Threads |-> IF t = u THEN [b[t] EXCEPT ![l] = 0] ELSE [b[t] EXCEPT ![l] = @ + 1]]

\* Mutex::lock returned to thread t: whatever was stored before the mutex
\* was last released has happened before (every store to flag and data_ptr
\* is made by a holder of both mutexes).
Acquired(b, t) == [b EXCEPT ![t] = UpToDate]

\* No replace is between its store of false to flag and its return.
ReplaceReturned ==
  \A u \in Updaters : pc[u] \notin {"r_free", "r_store", "r_unlock_w", "r_unlock_l"}

\* The implementation a call that starts now was promised (history only):
\* the one installed by the last replace that cleared flag, when that replace
\* has returned and no later one has stored true.
Promised == IF ~flag /\ ReplaceReturned THEN last_inst ELSE NoImpl

\* What the flag load of a call witnessed (history only): the value f it
\* loaded, from the store k before the newest.  For true the replace that
\* last stored true; for false the implementation installed by the last
\* replace that cleared flag, when the call loaded the false that replace
\* stored or started after it returned.
Witnessed(f, k) ==
  IF f THEN [flag |-> TRUE, inst |-> flag_by.old, by |-> flag_by.by]
       ELSE [flag |-> FALSE,
             inst |-> IF ~flag /\ k = 0 THEN last_inst ELSE Promised,
             by |-> NoThread]

\* A caller enters Proxy.domain_id / read / write: self.flag.load(Relaxed) and
\* the branch on it.  The load is not ordered with any other access: it
\* returns the newest store to flag or an older one the thread has not seen
\* superseded.  Proxy.init has no dispatcher: it is read_directly at once
\* (srcu_dereference, likewise unordered with the stores of a replace).
CallerInvoke(t, m) ==
  /\ t \in Callers
  /\ pc[t] = "idle"
  /\ method' = [method EXCEPT ![t] = m]
  /\ ret' = [ret EXCEPT ![t] = NoResult]
  /\ IF m = "init"
       THEN /\ \E k \in 0..behind[t].domain :
                 /\ ptr' = [ptr EXCEPT ![t] = StoreAt(domain, domain_old, k)]
                 /\ behind' = Observed(behind, t, "domain", k)
            /\ pc' = [pc EXCEPT ![t] = "impl_direct"]
            /\ seen' = [seen EXCEPT ![t] = [NoSeen EXCEPT !.inst = Promised]]
       ELSE /\ \E k \in 0..behind[t].flag :
                 LET f == StoreAt(flag, flag_old, k) IN
                   /\ pc' = [pc EXCEPT ![t] = Dispatch(f)]
                   /\ seen' = [seen EXCEPT ![t] = Witnessed(f, k)]
                   /\ behind' = Observed(behind, t, "flag", k)
            /\ UNCHANGED ptr
  /\ rr' = [rr EXCEPT ![t] = IF m = "read" THEN NewRRef(CurrentDomainId) ELSE NoRRef]
  /\ UNCHANGED <<shared, site, loc, flag_by, last_inst>>
  /\ UNCHANGED standalone
  /\ UNCHANGED <<flag_old, domain_old>>
  /\ UNCHANGED last_update

\* self.flag.load(Relaxed) of a domain_id() call made by sys_update_domain or
\* by replace, and the branch on it.  No acquire and no lock orders the load:
\* it returns the newest store to flag or an older one the thread has not
\* seen superseded, whatever the thread observes of data_ptr afterwards.
LoadFlag(t) ==
  /\ pc[t] = "flag"
  /\ \E k \in 0..behind[t].flag :
       LET f == StoreAt(flag, flag_old, k) IN
         /\ pc' = [pc EXCEPT ![t] = Dispatch(f)]
         /\ seen' = [seen EXCEPT ![t] = Witnessed(f, k)]
         /\ behind' = Observed(behind, t, "flag", k)
  /\ UNCHANGED <<shared, site, method, ptr, ret, loc, flag_by, last_inst>>
  /\ UNCHANGED rr
  /\ UNCHANGED standalone
  /\ UNCHANGED <<flag_old, domain_old>>
  /\ UNCHANGED last_update

\* counter.get_with(|c| *c += 1) on the CPU the thread runs on.
FastInc(t) ==
  /\ pc[t] = "inc"
  /\ \E c \in CPUs : /\ counter[c] < MaxShard
                     /\ counter' = [counter EXCEPT ![c] = @ + 1]
  /\ pc' = [pc EXCEPT ![t] = "ptr_fast"]
  /\ UNCHANGED <<flag, lock, loader_lock, loader, domain, released, domain_list,
                 next_id, started, budget, site, method, ptr, ret, loc, hist>>
  /\ UNCHANGED rr
  /\ UNCHANGED standalone
  /\ UNCHANGED memory
  /\ UNCHANGED last_update

\* Mutex::lock: blocks while the mutex is held (by anyone, the caller included).
CanLock(holder) == holder = NoThread

\* let lock = self.lock.lock() of the locked path.
LockAcquire(t) ==
  /\ pc[t] = "lock_wait"
  /\ CanLock(lock)
  /\ lock' = t
  /\ behind' = Acquired(behind, t)
  /\ pc' = [pc EXCEPT ![t] = "ptr_lock"]
  /\ UNCHANGED <<flag, loader_lock, loader, domain, counter, released, domain_list,
                 next_id, started, budget, site, method, ptr, ret, loc, hist>>
  /\ UNCHANGED rr
  /\ UNCHANGED standalone
  /\ UNCHANGED <<flag_old, domain_old>>
  /\ UNCHANGED last_update

\* The closure of _read up to the call of domain.read: id = domain.domain_id();
\* old_id = data.move_to(id).
RetagOnEntry(r, id) ==
  LET m == MoveTo(r.tag, id) IN [r EXCEPT !.tag = m.tag, !.old_id = m.old]

\* The closure of _read has run data.move_to(id): its local old_id is set (a
\* tag is never 0).
Retagged(r) == r.old_id # 0

\* _read after read_directly: res.map(|r| { r.move_to(old_id); r }).  An Err
\* carries no RRefVec: the implementation consumed the argument.
RetagOnReturn(r, res) ==
  IF res = "Ok" THEN [r EXCEPT !.tag = MoveTo(r.tag, r.old_id).tag] ELSE NoRRef

\* The RRefVec of the caller's read when its call returns result res.
ReturnRRef(t, res) ==
  IF t \in Callers /\ method[t] = "read"
    THEN rr' = [rr EXCEPT ![t] = RetagOnReturn(rr[t], res)]
    ELSE UNCHANGED rr

\* The thread faults inside read_directly's closure: it stops where it is,
\* with whatever it holds.
Crashed(t) ==
  /\ pc' = [pc EXCEPT ![t] = "crashed"]
  /\ UNCHANGED <<site, method, ptr, ret, loc, hist, rr>>

\* SRcuData::read_directly: srcu_dereference returns the pointer the closure
\* will run on: the newest store to data_ptr, or an older one the thread has
\* not seen superseded (on the locked path the mutex has brought the thread
\* up to date; on the fast path nothing has).
LoadPtr(t) ==
  /\ pc[t] \in {"ptr_fast", "ptr_lock"}
  /\ \E k \in 0..behind[t].domain :
       /\ ptr' = [ptr EXCEPT ![t] = StoreAt(domain, domain_old, k)]
       /\ behind' = Observed(behind, t, "domain", k)
  /\ pc' = [pc EXCEPT ![t] = IF pc[t] = "ptr_fast" THEN "impl_fast" ELSE "impl_lock"]
  /\ UNCHANGED <<shared, site, method, ret, loc, hist>>
  /\ UNCHANGED rr
  /\ UNCHANGED standalone
  /\ UNCHANGED <<flag_old, domain_old>>
  /\ UNCHANGED last_update

\* A read call is in the closure of _read before data.move_to(id).
ReadBeforeRetag(t) ==
  /\ t \in Callers
  /\ method[t] = "read"
  /\ pc[t] \in {"impl_fast", "impl_lock"}
  /\ ~Retagged(rr[t])

\* _read lines 239-243: id = domain.domain_id() through the loaded pointer,
\* old_id = data.move_to(id).  On a freed box the dispatch returns the
\* object's id, returns anything, or faults.
ReadRetag(t) ==
  /\ ReadBeforeRetag(t)
  /\ \E r \in Outcomes(ptr[t], "domain_id") :
       IF r = CrashResult
         THEN Crashed(t)
         ELSE /\ rr' = [rr EXCEPT ![t] = RetagOnEntry(rr[t], r.id)]
              /\ UNCHANGED <<pc, site, method, ptr, ret, loc, hist>>
  /\ UNCHANGED shared
  /\ UNCHANGED standalone
  /\ UNCHANGED memory
  /\ UNCHANGED last_update

\* Where a thread continues when its proxy call returns with result r.
Continue(t, r) ==
  /\ seen' = [seen EXCEPT ![t] = NoSeen]
  /\ ptr' = [ptr EXCEPT ![t] = NoImpl]
  /\ UNCHANGED <<method, flag_by, last_inst>>
  /\ CASE site[t] = "caller" ->
            /\ pc' = [pc EXCEPT ![t] = "idle"]
            /\ ret' = [ret EXCEPT ![t] = r]
            /\ UNCHANGED <<site, loc>>
       [] site[t] = "query" ->   \* line 103 done; line 132 calls domain_id again
            /\ pc' = [pc EXCEPT ![t] = "flag"]
            /\ site' = [site EXCEPT ![t] = "match"]
            /\ loc' = [loc EXCEPT ![t].old_domain_id = r.id]
            /\ UNCHANGED ret
       [] site[t] = "match" ->   \* line 132 done; create_domain_or_empty is next
            /\ pc' = [pc EXCEPT ![t] = "u_create"]
            /\ UNCHANGED <<site, loc, ret>>
       [] site[t] = "replace" -> \* line 335: let old_id = self.domain_id()
            /\ pc' = [pc EXCEPT ![t] = "r_setflag"]
            /\ loc' = [loc EXCEPT ![t].old_id = r.id]
            /\ UNCHANGED <<site, ret>>

\* Fast path: the implementation's method returns, then
\* counter.get_with(|c| *c -= 1) on the CPU the thread runs on now.
\* self.counter.get_with(|counter| *counter -= 1) on the CPU the thread is
\* on at its exit (lines 186-188, 283, 293).
CounterDec(c) == [counter EXCEPT ![c] = @ - 1]

FastReturn(t) ==
  /\ pc[t] = "impl_fast"
  /\ ~ReadBeforeRetag(t)
  /\ \E r \in Outcomes(ptr[t], method[t]) :
       IF r = CrashResult
         THEN Crashed(t) /\ UNCHANGED counter
         ELSE /\ \E c \in CPUs : /\ counter[c] > -MaxShard
                                /\ counter' = CounterDec(c)
              /\ Continue(t, r)
              /\ ReturnRRef(t, r.res)
  /\ UNCHANGED <<flag, lock, loader_lock, loader, domain, released, domain_list,
                 next_id, started, budget>>
  /\ UNCHANGED standalone
  /\ UNCHANGED memory
  /\ UNCHANGED last_update

\* Locked path: the implementation's method returns, then drop(lock).
LockedReturn(t) ==
  /\ pc[t] = "impl_lock"
  /\ ~ReadBeforeRetag(t)
  /\ \E r \in Outcomes(ptr[t], method[t]) :
       IF r = CrashResult
         THEN Crashed(t) /\ UNCHANGED lock
         ELSE lock' = NoThread /\ Continue(t, r) /\ ReturnRRef(t, r.res)
  /\ UNCHANGED <<flag, loader_lock, loader, domain, counter, released, domain_list,
                 next_id, started, budget>>
  /\ UNCHANGED standalone
  /\ UNCHANGED memory
  /\ UNCHANGED last_update

\* Proxy.init: the closure of read_directly returns.
DirectReturn(t) ==
  /\ pc[t] = "impl_direct"
  /\ \E r \in Outcomes(ptr[t], method[t]) :
       IF r = CrashResult THEN Crashed(t)
                          ELSE Continue(t, r) /\ ReturnRRef(t, r.res)
  /\ UNCHANGED shared
  /\ UNCHANGED standalone
  /\ UNCHANGED memory
  /\ UNCHANGED last_update

\* ------------------------------------------------ DomainSyscall (syscall.rs)

\* domain_list.get_mut(&domain_id).map(|d| d.panic_count += 1)
BumpPanicCount(list, domain_id) ==
  IF domain_id \in DOMAIN list
    THEN [list EXCEPT ![domain_id].panic_count = @ + 1]
    ELSE list

\* sys_backtrace(domain_id), lines 56-62: under DOMAIN_INFO.lock() the entry
\* of the domain, when there is one, gets its panic count incremented.
SysBacktrace(domain_id) ==
  /\ started < budget.calls
  /\ started' = started + 1
  /\ domain_list' = BumpPanicCount(domain_list, domain_id)
  /\ UNCHANGED <<flag, lock, loader_lock, loader, domain, counter, released,
                 next_id, budget, pc, site, method, ptr, ret, loc, hist>>
  /\ UNCHANGED rr
  /\ UNCHANGED standalone
  /\ UNCHANGED memory
  /\ UNCHANGED last_update

\* -------------------------------------------- DomainSyscall::sys_update_domain

\* Mutant: the None arm lets the call succeed.
NoneArm_Ok == "Ok"

\* The None arm of the match on old_domain (lines 179-185): Err(EINVAL).
NoneArm == "EINVAL"

\* super::query_domain(name): the proxy registered under the name, if any.
QueryDomain(name) == name = "nd"

\* sys_update_domain entry, lines 102-103 and the match on old_domain: an
\* unknown name returns EINVAL; otherwise old_domain.domain_id() is called on
\* the proxy.
SysUpdateDomain(u, name) ==
  /\ u \in budget.threads
  /\ pc[u] = "u_idle"
  /\ started < budget.calls
  /\ started' = started + 1
  /\ IF QueryDomain(name)
        THEN /\ pc' = [pc EXCEPT ![u] = "flag"]
             /\ site' = [site EXCEPT ![u] = "query"]
             /\ loc' = [loc EXCEPT ![u] = [NoLoc EXCEPT !.name = name]]
        ELSE /\ loc' = [loc EXCEPT ![u] = [NoLoc EXCEPT !.name = name, !.result = NoneArm]]
             /\ UNCHANGED <<pc, site>>
  /\ method' = [method EXCEPT ![u] = "domain_id"]
  /\ UNCHANGED <<flag, lock, loader_lock, loader, domain, counter, released,
                 domain_list, next_id, budget, ptr, ret, hist>>
  /\ UNCHANGED rr
  /\ UNCHANGED standalone
  /\ UNCHANGED memory
  /\ UNCHANGED last_update

\* creator::create_domain_or_empty: either the loaded implementation (whose
\* init will succeed or fail) under a fresh id, or the empty placeholder, whose
\* id is the sentinel u64::MAX.  uid tells the objects apart.
CreateDomainOrEmpty(u, loaded, init_ok) ==
  /\ pc[u] = "u_create"
  /\ loaded \/ init_ok        \* EmptyDeviceDomainEmptyImpl::init is Ok(())
  /\ next_id' = next_id + 1
  /\ loc' = [loc EXCEPT ![u].new = [uid |-> next_id, empty |-> ~loaded],
                        ![u].id = IF loaded THEN next_id ELSE U64_MAX,
                        ![u].init_ok = init_ok]
  /\ pc' = [pc EXCEPT ![u] = "r_loader"]
  /\ UNCHANGED <<flag, lock, loader_lock, loader, domain, counter, released,
                 domain_list, started, budget, site, method, ptr, ret, hist>>
  /\ UNCHANGED rr
  /\ UNCHANGED standalone
  /\ UNCHANGED memory
  /\ UNCHANGED last_update

\* ------------------------------------------ EmptyDeviceDomainProxy::replace

\* line 328: let mut loader_guard = self.domain_loader.lock()
ReplaceLockLoader(u) ==
  /\ pc[u] = "r_loader"
  /\ CanLock(loader_lock)
  /\ loader_lock' = u
  /\ behind' = Acquired(behind, u)
  /\ pc' = [pc EXCEPT ![u] = "r_wlock"]
  /\ UNCHANGED <<flag, lock, loader, domain, counter, released, domain_list,
                 next_id, started, budget, site, method, ptr, ret, loc, hist>>
  /\ UNCHANGED rr
  /\ UNCHANGED standalone
  /\ UNCHANGED <<flag_old, domain_old>>
  /\ UNCHANGED last_update

\* line 332: let w_lock = self.lock.lock(); line 335 then calls self.domain_id()
ReplaceLockWrite(u) ==
  /\ pc[u] = "r_wlock"
  /\ CanLock(lock)
  /\ lock' = u
  /\ behind' = Acquired(behind, u)
  /\ site' = [site EXCEPT ![u] = "replace"]
  /\ pc' = [pc EXCEPT ![u] = "flag"]
  /\ UNCHANGED <<flag, loader_lock, loader, domain, counter, released, domain_list,
                 next_id, started, budget, method, ptr, ret, loc, hist>>
  /\ UNCHANGED rr
  /\ UNCHANGED standalone
  /\ UNCHANGED <<flag_old, domain_old>>
  /\ UNCHANGED last_update

\* line 339: self.flag.store(true, Relaxed)
ReplaceSetFlag(u) ==
  /\ pc[u] = "r_setflag"
  /\ flag' = TRUE
  /\ flag_old' = Append(flag_old, flag)
  /\ behind' = Published(behind, u, "flag")
  /\ loc' = [loc EXCEPT ![u].acc = 0, ![u].idx = 0, ![u].saw_zero = FALSE]
  /\ pc' = [pc EXCEPT ![u] = "r_drain"]
  /\ flag_by' = [by |-> u, old |-> domain]
  /\ seen' = [t \in Threads |-> IF seen[t].flag THEN seen[t] ELSE NoSeen]
  /\ UNCHANGED <<lock, loader_lock, loader, domain, counter, released, domain_list,
                 next_id, started, budget, site, method, ptr, ret, last_inst>>
  /\ UNCHANGED rr
  /\ UNCHANGED standalone
  /\ UNCHANGED domain_old
  /\ UNCHANGED last_update

\* Mutant: the drain loop is left whatever the sum.
DrainExit_NoWait(sum) == sum = sum

\* The loop condition of line 343 on a completed sum: leave the loop?
DrainExit(sum) == sum = 0

LastCPU == CHOOSE c \in CPUs : \A d \in CPUs : d <= c

\* line 343: while self.counter.sum() != 0 {}.  sum() visits the shards one
\* after the other, unsynchronized; each step reads one shard.
ReplaceDrain(u) ==
  /\ pc[u] = "r_drain"
  /\ LET s == loc[u].acc + counter[loc[u].idx] IN
       IF loc[u].idx # LastCPU
         THEN /\ loc' = [loc EXCEPT ![u].acc = s, ![u].idx = @ + 1]
              /\ UNCHANGED pc
         ELSE /\ loc' = [loc EXCEPT ![u].acc = 0, ![u].idx = 0,
                                    ![u].saw_zero = (s = 0)]
              /\ pc' = [pc EXCEPT ![u] = IF DrainExit(s) THEN "r_init" ELSE "r_drain"]
  /\ UNCHANGED <<shared, site, method, ptr, ret, hist>>
  /\ UNCHANGED rr
  /\ UNCHANGED standalone
  /\ UNCHANGED memory
  /\ UNCHANGED last_update

\* lines 350-351: new_domain.domain_id(); new_domain.init().unwrap().
\* A failed init panics: the panic either unwinds (the guards are dropped in
\* reverse order of declaration) or aborts the thread where it stands.
ReplaceInit(u, unwinds) ==
  /\ pc[u] = "r_init"
  /\ loc' = [loc EXCEPT ![u].new_domain_id = DomainIdOf(loc[u].new)]
  /\ pc' = [pc EXCEPT ![u] = IF loc[u].init_ok THEN "r_update"
                              ELSE IF unwinds THEN "r_unwind_w" ELSE "aborted"]
  /\ UNCHANGED <<shared, site, method, ptr, ret, hist>>
  /\ UNCHANGED rr
  /\ UNCHANGED standalone
  /\ UNCHANGED memory
  /\ UNCHANGED last_update

\* unwinding drops w_lock ...
PanicUnwindWrite(u) ==
  /\ pc[u] = "r_unwind_w"
  /\ lock' = NoThread
  /\ pc' = [pc EXCEPT ![u] = "r_unwind_l"]
  /\ UNCHANGED <<flag, loader_lock, loader, domain, counter, released, domain_list,
                 next_id, started, budget, site, method, ptr, ret, loc, hist>>
  /\ UNCHANGED rr
  /\ UNCHANGED standalone
  /\ UNCHANGED memory
  /\ UNCHANGED last_update

\* ... then loader_guard, and leaves sys_update_domain by the panic.
PanicUnwindLoader(u) ==
  /\ pc[u] = "r_unwind_l"
  /\ loader_lock' = NoThread
  /\ pc' = [pc EXCEPT ![u] = "panicked"]
  /\ UNCHANGED <<flag, lock, loader, domain, counter, released, domain_list,
                 next_id, started, budget, site, method, ptr, ret, loc, hist>>
  /\ UNCHANGED rr
  /\ UNCHANGED standalone
  /\ UNCHANGED memory
  /\ UNCHANGED last_update

\* SRcuData::update_directly: old_ptr = data_ptr; srcu_assign_pointer(new);
\* returns the old box, without a grace period.  The assignment is a release
\* store: it orders what precedes it, not the store to flag that follows.
UpdateDirectly(u) ==
  /\ domain' = loc[u].new
  /\ domain_old' = Append(domain_old, domain)
  /\ behind' = Published(behind, u, "domain")
  /\ loc' = [loc EXCEPT ![u].old_domain = domain]

\* line 356: let old_domain = self.domain.update_directly(new_domain)
ReplaceUpdate(u) ==
  /\ pc[u] = "r_update"
  /\ UpdateDirectly(u)
  /\ pc' = [pc EXCEPT ![u] = "r_clear"]
  /\ UNCHANGED <<flag, lock, loader_lock, loader, counter, released, domain_list,
                 next_id, started, budget, site, method, ptr, ret, hist>>
  /\ UNCHANGED rr
  /\ UNCHANGED standalone
  /\ UNCHANGED flag_old
  /\ UNCHANGED last_update

\* line 360: self.flag.store(false, Relaxed).  Nothing orders this store
\* after the pointer store of line 356 for another thread: a thread may
\* observe it and still not have observed the new pointer.
ReplaceClearFlag(u) ==
  /\ pc[u] = "r_clear"
  /\ flag' = FALSE
  /\ flag_old' = Append(flag_old, flag)
  /\ behind' = Published(behind, u, "flag")
  /\ last_inst' = loc[u].new
  /\ pc' = [pc EXCEPT ![u] = "r_free"]
  /\ UNCHANGED <<lock, loader_lock, loader, domain, counter, released, domain_list,
                 next_id, started, budget, site, method, ptr, ret, loc, seen, flag_by>>
  /\ UNCHANGED rr
  /\ UNCHANGED standalone
  /\ UNCHANGED domain_old
  /\ UNCHANGED last_update

\* free_domain_resource(id, NotFree(new_owner)) on the shared heap: every
\* live block tagged id is retagged to new_owner, none is dropped.
KeepShared(blocks, id, new_owner) ==
  [t \in DOMAIN blocks |->
     IF blocks[t].live /\ blocks[t].tag = id
       THEN [blocks[t] EXCEPT !.tag = new_owner] ELSE blocks[t]]

\* Mutant: the old implementation is dropped instead of forgotten.
Forget_Drops(destructed, i) == destructed \cup {i}

\* core::mem::forget(real_domain), line 369: takes ownership, runs no
\* destructor.
Forget(destructed, i) == destructed

\* lines 365-373: Box::into_inner frees the old box, forget(real_domain),
\* free_domain_resource(old_id, NotFree(new_domain_id)).
ReplaceFree(u) ==
  /\ pc[u] = "r_free"
  /\ released' = released \cup {loc[u].old_domain.uid}
  /\ rr' = KeepShared(rr, loc[u].old_id, loc[u].new_domain_id)
  /\ loc' = [loc EXCEPT
               ![u].destructed = Forget(loc[u].destructed, loc[u].old_domain),
               ![u].requests = Append(loc[u].requests,
                                      [id |-> loc[u].old_id,
                                       free_shared |-> "NotFree",
                                       new_owner |-> loc[u].new_domain_id])]
  /\ pc' = [pc EXCEPT ![u] = "r_store"]
  /\ UNCHANGED <<flag, lock, loader_lock, loader, domain, counter, domain_list,
                 next_id, started, budget, site, method, ptr, ret, hist>>
  /\ UNCHANGED standalone
  /\ UNCHANGED memory
  /\ UNCHANGED last_update

\* line 376: *loader_guard = domain_loader
ReplaceStoreLoader(u) ==
  /\ pc[u] = "r_store"
  /\ loader' = loc[u].new.uid
  /\ pc' = [pc EXCEPT ![u] = "r_unlock_w"]
  /\ UNCHANGED <<flag, lock, loader_lock, domain, counter, released, domain_list,
                 next_id, started, budget, site, method, ptr, ret, loc, hist>>
  /\ UNCHANGED rr
  /\ UNCHANGED standalone
  /\ UNCHANGED memory
  /\ UNCHANGED last_update

\* line 379: drop(w_lock)
ReplaceUnlockWrite(u) ==
  /\ pc[u] = "r_unlock_w"
  /\ lock' = NoThread
  /\ pc' = [pc EXCEPT ![u] = "r_unlock_l"]
  /\ UNCHANGED <<flag, loader_lock, loader, domain, counter, released, domain_list,
                 next_id, started, budget, site, method, ptr, ret, loc, hist>>
  /\ UNCHANGED rr
  /\ UNCHANGED standalone
  /\ UNCHANGED memory
  /\ UNCHANGED last_update

\* line 380: drop(loader_guard); replace returns Ok(())
ReplaceUnlockLoader(u) ==
  /\ pc[u] = "r_unlock_l"
  /\ loader_lock' = NoThread
  /\ pc' = [pc EXCEPT ![u] = "u_registry"]
  /\ UNCHANGED <<flag, lock, loader, domain, counter, released, domain_list,
                 next_id, started, budget, site, method, ptr, ret, loc, hist>>
  /\ UNCHANGED rr
  /\ UNCHANGED standalone
  /\ UNCHANGED memory
  /\ UNCHANGED last_update

\* BTreeMap::remove then insert on domain_list.
RemoveInsert(list, old_key, new_key, data) ==
  [k \in (DOMAIN list \ {old_key}) \cup {new_key} |->
     IF k = new_key THEN data ELSE list[k]]

\* lines 189-202, under DOMAIN_INFO.lock(): remove old_domain_id, insert the
\* new id with the old name and panic_count 0; return Ok(()).
UpdateRegistry(u) ==
  /\ pc[u] = "u_registry"
  /\ domain_list' = RemoveInsert(domain_list, loc[u].old_domain_id, loc[u].id,
                                 [name |-> loc[u].name, panic_count |-> 0])
  /\ last_update' = [by |-> u, name |-> loc[u].name,
                      old_domain_id |-> loc[u].old_domain_id, id |-> loc[u].id,
                      new |-> loc[u].new, before |-> domain_list, after |-> domain_list']
  /\ loc' = [loc EXCEPT ![u] = [NoLoc EXCEPT !.result = "Ok"]]
  /\ pc' = [pc EXCEPT ![u] = "u_idle"]
  /\ UNCHANGED <<flag, lock, loader_lock, loader, domain, counter, released,
                 next_id, started, budget, site, method, ptr, ret, hist>>
  /\ UNCHANGED rr
  /\ UNCHANGED standalone
  /\ UNCHANGED memory

Next ==
  \/ \E t \in Callers, m \in Methods : CallerInvoke(t, m)
  \/ \E t \in Threads : LoadFlag(t)
  \/ \E t \in Threads : FastInc(t)
  \/ \E t \in Threads : LockAcquire(t)
  \/ \E t \in Threads : LoadPtr(t)
  \/ \E t \in Callers : ReadRetag(t)
  \/ \E t \in Threads : FastReturn(t)
  \/ \E t \in Threads : LockedReturn(t)
  \/ \E t \in Threads : DirectReturn(t)
  \/ \E id \in {1, 2, CurrentDomainId, U64_MAX} : SysBacktrace(id)
  \/ \E u \in Updaters, n \in Names : SysUpdateDomain(u, n)
  \/ \E u \in Updaters, l \in BOOLEAN, i \in BOOLEAN : CreateDomainOrEmpty(u, l, i)
  \/ \E u \in Updaters : ReplaceLockLoader(u)
  \/ \E u \in Updaters : ReplaceLockWrite(u)
  \/ \E u \in Updaters : ReplaceSetFlag(u)
  \/ \E u \in Updaters : ReplaceDrain(u)
  \/ \E u \in Updaters, w \in BOOLEAN : ReplaceInit(u, w)
  \/ \E u \in Updaters : PanicUnwindWrite(u)
  \/ \E u \in Updaters : PanicUnwindLoader(u)
  \/ \E u \in Updaters : ReplaceUpdate(u)
  \/ \E u \in Updaters : ReplaceClearFlag(u)
  \/ \E u \in Updaters : ReplaceFree(u)
  \/ \E u \in Updaters : ReplaceStoreLoader(u)
  \/ \E u \in Updaters : ReplaceUnlockWrite(u)
  \/ \E u \in Updaters : ReplaceUnlockLoader(u)
  \/ \E u \in Updaters : UpdateRegistry(u)

Spec == Init /\ [][Next]_vars

\* ------------------------------------------------------- RRef (rref.rs)

\* Domain ids a handle can be constructed in or moved to.
DomainIds == {1, 2, CurrentDomainId, U64_MAX}

\* RRef::new: new_with_layout in the domain whose id is id.
RRefNew(id) ==
  /\ rref_state = "none"
  /\ rref_state' = "alive"
  /\ domain_id_slot' = NewRRef(id).tag
  /\ exist' = FALSE
  /\ tag0' = id
  /\ UNCHANGED <<calls, drop_log, custom_log, proxyvars, srcuvars, ctorvars>>

\* handle.move_to(new_domain_id)
RRefMoveTo(new_domain_id) ==
  /\ rref_state = "alive"
  /\ Len(calls) < MaxMoves
  /\ LET m == MoveTo(domain_id_slot, new_domain_id) IN
       /\ domain_id_slot' = m.tag
       /\ calls' = Append(calls, [arg |-> new_domain_id, ret |-> m.old,
                                  before |-> domain_id_slot, after |-> m.tag])
  /\ UNCHANGED <<rref_state, exist, tag0, drop_log, custom_log, proxyvars, srcuvars, ctorvars>>

\* The crate marks a handle whose ownership was surrendered: exist = true.
SurrenderOwnership ==
  /\ rref_state = "alive"
  /\ ~exist
  /\ exist' = TRUE
  /\ UNCHANGED <<rref_state, domain_id_slot, tag0, calls, drop_log, custom_log, proxyvars, srcuvars, ctorvars>>

\* Mutant: the block is released before the payload's destructor runs.
CustomDrop_DeallocFirst(e, log) ==
  IF e THEN log ELSE log \o <<"share_heap_dealloc", "value.custom_drop">>

\* CustomDrop::custom_drop for RRef: nothing when exist; else
\* value.custom_drop(), then share_heap_dealloc(value_pointer).
CustomDrop(e, log) ==
  IF e THEN log ELSE log \o <<"value.custom_drop", "share_heap_dealloc">>

\* Drop::drop for RRef: nothing when exist; else self.custom_drop().
Drop(e, log) == IF e THEN log ELSE CustomDrop(e, log)

\* The handle goes out of scope.
RRefDrop ==
  /\ rref_state = "alive"
  /\ rref_state' = "dropped"
  /\ drop_log' = Drop(exist, drop_log)
  /\ UNCHANGED <<domain_id_slot, exist, tag0, calls, custom_log, proxyvars, srcuvars, ctorvars>>

\* handle.custom_drop() called by the holder of the handle (CustomDrop is a
\* public trait, the method takes &mut self); exist is left as it is.
RRefCustomDrop ==
  /\ rref_state = "alive"
  /\ Len(custom_log) < 2 * MaxCustomDrops
  /\ custom_log' = CustomDrop(exist, custom_log)
  /\ UNCHANGED <<rref_state, domain_id_slot, exist, tag0, calls, drop_log, proxyvars,
                 srcuvars, ctorvars>>

NextRRef ==
  \/ \E id \in DomainIds : RRefNew(id)
  \/ \E id \in DomainIds : RRefMoveTo(id)
  \/ SurrenderOwnership
  \/ RRefCustomDrop
  \/ RRefDrop

\* One handle: constructed, retagged, possibly surrendered, dropped.
SpecRRef == Init /\ [][NextRRef]_vars

SpecBackToBack == InitBackToBack /\ [][Next]_vars

\* ------------------------------------- RRef construction (rref.rs:77-131)

\* Mutant: the type is never registered.
OrInsert_Nothing(reg, type_id, drop_fn) == reg

\* BTreeMap::entry(type_id).or_insert(drop_fn)
OrInsert(reg, type_id, drop_fn) ==
  IF type_id \in DOMAIN reg THEN reg
  ELSE [k \in (DOMAIN reg) \cup {type_id} |-> IF k = type_id THEN drop_fn ELSE reg[k]]

\* Mutant: every variant writes the payload.
InitArg_Always(variant) == variant = variant

\* The init argument the variant passes to new_with_layout (lines 101, 107:
\* true; lines 116, 128: false).
InitArg(variant) == variant \in {"new", "new_aligned"}

\* RRef::new / new_aligned / new_uninit / new_uninit_aligned is entered;
\* new_with_layout lines 78-81: under DROP.lock(),
\* entry(type_id).or_insert(drop_no_type::<T>).
CtorRegister(k, variant, type_id) ==
  /\ n_pc[k] = "idle"
  /\ n_args' = [n_args EXCEPT ![k] = [variant |-> variant, type |-> type_id,
                                        domain |-> DomainOfCtor(k)]]
  /\ drop_registry' = OrInsert(drop_registry, type_id, [drop_fn |-> type_id, by |-> k])
  /\ n_pc' = [n_pc EXCEPT ![k] = "alloc"]
  /\ UNCHANGED <<heap, n_handle, proxyvars, rrefvars, srcuvars>>

\* lines 83-86: share_heap_alloc(layout, type_id, drop_domain_share_data);
\* None panics.  The block's tag slot and payload are not written yet.
CtorAlloc(k, ok) ==
  /\ n_pc[k] = "alloc"
  /\ ok => Len(heap) < MaxBlocks
  /\ IF ok
       THEN /\ heap' = Append(heap, [type |-> n_args[k].type, tag |-> 0,
                                      written |-> FALSE, by |-> k])
            /\ n_handle' = [n_handle EXCEPT ![k] = [block |-> Len(heap) + 1, exist |-> FALSE]]
            /\ n_pc' = [n_pc EXCEPT ![k] = "write"]
       ELSE /\ n_pc' = [n_pc EXCEPT ![k] = "panicked"]
            /\ UNCHANGED <<heap, n_handle>>
  /\ UNCHANGED <<drop_registry, n_args, proxyvars, rrefvars, srcuvars>>

\* lines 87-96: *domain_id_pointer = crate::domain_id(); the payload is
\* written when init; the handle is returned with exist false.
CtorWrite(k) ==
  /\ n_pc[k] = "write"
  /\ heap' = [heap EXCEPT ![n_handle[k].block] =
                 [@ EXCEPT !.tag = NewRRef(n_args[k].domain).tag,
                           !.written = InitArg(n_args[k].variant)]]
  /\ n_pc' = [n_pc EXCEPT ![k] = "done"]
  /\ UNCHANGED <<drop_registry, n_args, n_handle, proxyvars, rrefvars, srcuvars>>

\* The caller passes the handle on; the block stays on the shared heap.
CtorNext(k) ==
  /\ n_pc[k] = "done"
  /\ n_pc' = [n_pc EXCEPT ![k] = "idle"]
  /\ n_args' = [n_args EXCEPT ![k] = NoArgs]
  /\ n_handle' = [n_handle EXCEPT ![k] = NoHandle]
  /\ UNCHANGED <<drop_registry, heap, proxyvars, rrefvars, srcuvars>>

NextCtor ==
  \/ \E k \in Ctors, v \in Variants, ty \in TypeIds : CtorRegister(k, v, ty)
  \/ \E k \in Ctors, ok \in BOOLEAN : CtorAlloc(k, ok)
  \/ \E k \in Ctors : CtorWrite(k)
  \/ \E k \in Ctors : CtorNext(k)

\* Two threads constructing handles of two payload types.
SpecCtor == Init /\ [][NextCtor]_vars

\* --------------------------------------------------- SRcuData (srcu.rs)

\* Readers inside an SRCU read-side critical section (between
\* __srcu_read_lock and __srcu_read_unlock of read).
InReadSection ==
  {r \in SReaders : s_mode[r] = "read" /\ s_pc[r] \in {"locked", "in_f"}}

\* read, line 76: idx = __srcu_read_lock(ssp)
ReadLock(r) ==
  /\ s_pc[r] = "idle"
  /\ s_pc' = [s_pc EXCEPT ![r] = "locked"]
  /\ s_mode' = [s_mode EXCEPT ![r] = "read"]
  /\ UNCHANGED <<data_ptr, next_val, s_ptr, old_ptr, new_ptr, waiting, finished,
                 installs, loaded_at, overlap, proxyvars, rrefvars, ctorvars, waited_for>>

\* read, lines 80-88: ptr = srcu_dereference; f(&*ptr) starts
ReadDeref(r) ==
  /\ s_pc[r] = "locked"
  /\ s_ptr' = [s_ptr EXCEPT ![r] = data_ptr]
  /\ loaded_at' = [loaded_at EXCEPT ![r] = Len(installs)]
  /\ s_pc' = [s_pc EXCEPT ![r] = "in_f"]
  /\ UNCHANGED <<data_ptr, next_val, s_mode, old_ptr, new_ptr, waiting, finished,
                 installs, overlap, proxyvars, rrefvars, ctorvars, waited_for>>

\* read, lines 92-97: f returned; __srcu_read_unlock(ssp, idx)
ReadUnlock(r) ==
  /\ s_pc[r] = "in_f"
  /\ s_mode[r] = "read"
  /\ s_pc' = [s_pc EXCEPT ![r] = "idle"]
  /\ s_mode' = [s_mode EXCEPT ![r] = "none"]
  /\ s_ptr' = [s_ptr EXCEPT ![r] = 0]
  /\ loaded_at' = [loaded_at EXCEPT ![r] = 0]
  /\ waiting' = [w \in SWriters |-> waiting[w] \ {r}]
  /\ overlap' = [w \in SWriters |-> overlap[w] \ {r}]
  /\ UNCHANGED <<data_ptr, next_val, old_ptr, new_ptr, finished, installs,
                 proxyvars, rrefvars, ctorvars, waited_for>>

\* read_directly, lines 115-121: ptr = srcu_dereference; f(&*ptr) starts
ReadDirectly(r) ==
  /\ s_pc[r] = "idle"
  /\ s_ptr' = [s_ptr EXCEPT ![r] = data_ptr]
  /\ loaded_at' = [loaded_at EXCEPT ![r] = Len(installs)]
  /\ s_pc' = [s_pc EXCEPT ![r] = "in_f"]
  /\ s_mode' = [s_mode EXCEPT ![r] = "read_directly"]
  /\ UNCHANGED <<data_ptr, next_val, old_ptr, new_ptr, waiting, finished,
                 installs, overlap, proxyvars, rrefvars, ctorvars, waited_for>>

\* read_directly: f returned
ReadDirectlyReturn(r) ==
  /\ s_pc[r] = "in_f"
  /\ s_mode[r] = "read_directly"
  /\ s_pc' = [s_pc EXCEPT ![r] = "idle"]
  /\ s_mode' = [s_mode EXCEPT ![r] = "none"]
  /\ s_ptr' = [s_ptr EXCEPT ![r] = 0]
  /\ loaded_at' = [loaded_at EXCEPT ![r] = 0]
  /\ UNCHANGED <<data_ptr, next_val, old_ptr, new_ptr, waiting, finished,
                 installs, overlap, proxyvars, rrefvars, ctorvars, waited_for>>

\* update / update_directly, lines 179-182 / 143-147:
\* old_ptr = self.crcu_data.data_ptr; new_ptr = Box::into_raw(Box::new(data))
UpdateBegin(w, kind) ==
  /\ s_pc[w] = "idle"
  /\ next_val <= 1 + MaxInstalls
  /\ s_mode' = [s_mode EXCEPT ![w] = kind]
  /\ old_ptr' = [old_ptr EXCEPT ![w] = data_ptr]
  /\ new_ptr' = [new_ptr EXCEPT ![w] = next_val]
  /\ next_val' = next_val + 1
  /\ finished' = [finished EXCEPT ![w] = NoCall]
  /\ overlap' = [overlap EXCEPT ![w] = {}]
  /\ waited_for' = [waited_for EXCEPT ![w] = {}]
  /\ s_pc' = [s_pc EXCEPT ![w] = "assign"]
  /\ UNCHANGED <<data_ptr, s_ptr, waiting, installs, loaded_at, proxyvars, rrefvars, ctorvars>>

\* Mutant: no method waits for a grace period.
UpdateWaits_Never(kind) == kind # kind

\* update calls synchronize_srcu after the assign (line 193); update_directly
\* does not.
UpdateWaits(kind) == kind = "update"

\* lines 185 / 152: srcu_assign_pointer(&self.crcu_data, new_ptr)
UpdateAssign(w) ==
  /\ s_pc[w] = "assign"
  /\ data_ptr' = new_ptr[w]
  /\ installs' = Append(installs, new_ptr[w])
  /\ overlap' = [overlap EXCEPT ![w] = InReadSection]
  /\ s_pc' = [s_pc EXCEPT ![w] = IF UpdateWaits(s_mode[w]) THEN "sync" ELSE "ret"]
  /\ UNCHANGED <<next_val, s_mode, s_ptr, old_ptr, new_ptr, waiting, finished,
                 loaded_at, proxyvars, rrefvars, ctorvars, waited_for>>

\* synchronize_srcu is entered: it will wait for the read-side critical
\* sections that are open now.
SynchronizeSrcuBegin(w) ==
  /\ s_pc[w] = "sync"
  /\ waiting' = [waiting EXCEPT ![w] = InReadSection]
  /\ waited_for' = [waited_for EXCEPT ![w] = InReadSection]
  /\ s_pc' = [s_pc EXCEPT ![w] = "wait"]
  /\ UNCHANGED <<data_ptr, next_val, s_mode, s_ptr, old_ptr, new_ptr, finished,
                 installs, loaded_at, overlap, proxyvars, rrefvars, ctorvars>>

\* synchronize_srcu returns: every section it waited for has exited.
SynchronizeSrcuEnd(w) ==
  /\ s_pc[w] = "wait"
  /\ waiting[w] = {}
  /\ s_pc' = [s_pc EXCEPT ![w] = "ret"]
  /\ UNCHANGED <<data_ptr, next_val, s_mode, s_ptr, old_ptr, new_ptr, waiting,
                 finished, installs, loaded_at, overlap, proxyvars, rrefvars, ctorvars, waited_for>>

\* lines 200-203 / 156-159: Box::from_raw(old_ptr) is returned
UpdateReturn(w) ==
  /\ s_pc[w] = "ret"
  /\ finished' = [finished EXCEPT ![w] =
                    [kind |-> s_mode[w], new |-> new_ptr[w], old |-> old_ptr[w],
                     idx |-> CHOOSE i \in 1..Len(installs) : installs[i] = new_ptr[w]]]
  /\ s_pc' = [s_pc EXCEPT ![w] = "idle"]
  /\ s_mode' = [s_mode EXCEPT ![w] = "none"]
  /\ UNCHANGED <<data_ptr, next_val, s_ptr, old_ptr, new_ptr, waiting, installs,
                 loaded_at, overlap, proxyvars, rrefvars, ctorvars, waited_for>>

NextSRcu ==
  \/ \E r \in SReaders : ReadLock(r)
  \/ \E r \in SReaders : ReadDeref(r)
  \/ \E r \in SReaders : ReadUnlock(r)
  \/ \E r \in SReaders : ReadDirectly(r)
  \/ \E r \in SReaders : ReadDirectlyReturn(r)
  \/ \E w \in SWriters, k \in {"update", "update_directly"} : UpdateBegin(w, k)
  \/ \E w \in SWriters : UpdateAssign(w)
  \/ \E w \in SWriters : SynchronizeSrcuBegin(w)
  \/ \E w \in SWriters : SynchronizeSrcuEnd(w)
  \/ \E w \in SWriters : UpdateReturn(w)

\* One cell, two readers and two writers using all four methods.
SpecSRcu == Init /\ [][NextSRcu]_vars

\* =================================================================== claims

\* A thread is executing a method of the implementation it loaded.
InImpl(t) == pc[t] \in {"impl_fast", "impl_lock", "impl_direct"}

\* The thread is inside replace with w_lock taken (line 332) and not yet dropped.
ReplaceHoldsWrite(u) ==
  \/ site[u] = "replace" /\ pc[u] \in {"flag", "inc", "ptr_fast", "impl_fast", "lock_wait"}
  \/ pc[u] \in {"r_setflag", "r_drain", "r_init", "r_update", "r_clear", "r_free",
                "r_store", "r_unlock_w", "r_unwind_w", "aborted"}

\* The thread is between lock() and drop(lock) of a locked-path call.
LockedCallHoldsWrite(t) == pc[t] \in {"ptr_lock", "impl_lock"}

HoldsWriteLock(t) == LockedCallHoldsWrite(t) \/ (t \in Updaters /\ ReplaceHoldsWrite(t))

\* The replace of u panicked on a failed init (unwinding, unwound or aborted).
Panicking(u) == pc[u] \in {"r_unwind_w", "r_unwind_l", "panicked", "aborted"}

\* The panic of u's replace has run its course.
PanicEnded(u) == pc[u] \in {"panicked", "aborted"}

\* u's replace waits for a mutex that will never be released: the write lock
\* it holds itself (its own self.domain_id() took the locked path), or a lock
\* held by a thread that aborted.
ReplaceBlockedForever(u) ==
  \/ pc[u] = "lock_wait" /\ site[u] = "replace"
  \/ pc[u] = "r_loader" /\ loader_lock \in Updaters /\ pc[loader_lock] = "aborted"
  \/ pc[u] = "r_wlock" /\ lock \in Updaters /\ pc[lock] = "aborted"

\* C1 (as claimed): no domain_id/read/write call is executing inside an
\* implementation that replace has swapped out (or released).
C1_OldImplNotInUse ==
  \A t \in Threads :
    (pc[t] \in {"impl_fast", "impl_lock"} /\ method[t] \in {"domain_id", "read", "write"})
      => (ptr[t] = domain /\ ptr[t].uid \notin released)

\* Every implementation object created so far.
Created == {[uid |-> n, empty |-> e] : n \in 1..(next_id - 1), e \in BOOLEAN}

\* C2 (as claimed): with one replace, every finished call returned what one
\* implementation (old or new) computes for it: the id it reported (the one
\* read retags its argument to) and the method's result come from the same
\* implementation.
C2_ResultFromOneImpl ==
  started <= 1 =>
    \A t \in Callers :
      ret[t] # NoResult => \E i \in Created : ret[t] = CallResult(i, method[t])

\* C3 (as claimed): while flag is true no call increments a shard and none
\* enters the implementation on the fast path.
C3_NoFastPathWhileUpgrading ==
  [][flag =>
       /\ \A c \in CPUs : counter'[c] <= counter[c]
       /\ \A t \in Threads : pc[t] = "ptr_fast" => pc'[t] # "impl_fast"]_vars

\* C4: a replace that is at or past update_directly has computed
\* counter.sum() = 0 since it stored flag = true.
C4_DrainObservedZero ==
  \A u \in Updaters :
    pc[u] \in {"r_init", "r_update", "r_clear", "r_free", "r_store", "r_unlock_w",
               "r_unlock_l"}
      => loc[u].saw_zero

\* C4 witness: update_directly has just run, after the drain saw zero.
C4_Witness ==
  \E u \in Updaters : pc[u] = "r_clear" /\ loc[u].saw_zero /\ domain = loc[u].new

\* C5 (as claimed): every replace leaves the drain loop and returns: none
\* ends in a panic and none waits on a lock that is never released.
C5_ReplaceReturns ==
  \A u \in Updaters : ~Panicking(u) /\ ~ReplaceBlockedForever(u)

\* C6 (as claimed): when the new implementation's init failed, replace returned
\* the error and the old implementation is still installed.
C6_InitFailureReturnsError ==
  \A u \in Updaters :
    PanicEnded(u) => (loc[u].result = "EIO" /\ domain # loc[u].new)

\* C7 (as claimed): after a replace whose init failed, flag is false (unless
\* another replace is under way), the replace holds neither lock, and the
\* registry has no entry for the rejected implementation.
C7_CleanAfterInitFailure ==
  \A u \in Updaters :
    PanicEnded(u) =>
      /\ flag => \E v \in Updaters \ {u} : pc[v] \in {"r_drain", "r_init", "r_update", "r_clear"}
      /\ lock # u
      /\ loader_lock # u
      /\ loc[u].new.uid \notin DOMAIN domain_list

\* C8 (as claimed): a call that started after a replace returned, and a
\* fast-path call that loaded the false that replace stored to flag, with no
\* later replace having stored flag = true, runs on the implementation that
\* replace installed.
C8_NewImplAfterReplace ==
  \A t \in Threads :
    (pc[t] \in {"impl_fast", "impl_direct"} /\ ~seen[t].flag /\ seen[t].inst # NoImpl)
      => ptr[t] = seen[t].inst

\* C9 (as claimed): a locked-path call never runs on the implementation that
\* the replace it saw under way was replacing.
C9_LockedCallRunsOnNewImpl ==
  \A t \in Threads : pc[t] = "impl_lock" => ptr[t] # seen[t].inst

\* Between taking loader_lock and dropping it.
InReplace(u) ==
  \/ ReplaceHoldsWrite(u)
  \/ pc[u] \in {"r_wlock", "r_unlock_l", "r_unwind_l"}

\* C10 (as claimed): replaces are serialized and neither blocks forever.
C10_ReplacesSerializedAndLive ==
  /\ \A u, v \in Updaters : (u # v /\ InReplace(u)) => ~InReplace(v)
  /\ \A u \in Updaters : ~ReplaceBlockedForever(u)

\* C11 (as claimed): whoever executes a method of the implementation through
\* the proxy either holds write_lock (locked path) or has incremented the
\* per-CPU counter and not yet decremented it (fast path).
C11_EveryMethodDispatched ==
  \A t \in Threads :
    InImpl(t) => \/ pc[t] = "impl_lock" /\ lock = t
                 \/ pc[t] = "impl_fast"

\* C12 (as claimed): in every state the tag of every live RRefVec is a key
\* of the domain registry or u64::MAX.
C12_TagNamesRegisteredDomain ==
  \A t \in Callers :
    rr[t].live => rr[t].tag \in (DOMAIN domain_list) \cup {U64_MAX}

\* C13 (as claimed): while the implementation's read runs, on either path,
\* the argument's tag is the id of that implementation; when read returned
\* Ok(r), r carries the tag the argument had before the call.
C13_RetagAcrossRead ==
  \A t \in Callers :
    method[t] = "read" =>
      /\ (pc[t] \in {"impl_fast", "impl_lock"} /\ Retagged(rr[t])) =>
            (rr[t].live /\ rr[t].tag = DomainIdOf(ptr[t]))
      /\ (pc[t] = "idle" /\ ret[t].res = "Ok") =>
            (rr[t].live /\ rr[t].tag = CurrentDomainId)

\* C14: every move_to leaves the tag at its argument and returns the tag held
\* immediately before; of two consecutive calls the second returns the first
\* one's argument, and moving to the value the first call returned restores
\* the tag the handle had before the first call.
C14_MoveToRoundTrip ==
  /\ \A i \in 1..Len(calls) :
        /\ calls[i].after = calls[i].arg
        /\ calls[i].ret = calls[i].before
        /\ calls[i].before = IF i = 1 THEN tag0 ELSE calls[i - 1].after
  /\ \A i \in 1..(Len(calls) - 1) :
        /\ calls[i + 1].ret = calls[i].arg
        /\ calls[i + 1].arg = calls[i].ret => calls[i + 1].after = calls[i].before
  /\ (rref_state # "none" /\ calls # <<>>) => domain_id_slot = calls[Len(calls)].arg

\* C14 witness: move_to(x) to another domain, then move_to of the value it
\* returned: the tag is back at the construction tag.
C14_Witness ==
  /\ Len(calls) = 2
  /\ calls[1].arg # tag0
  /\ calls[2].arg = calls[1].ret
  /\ domain_id_slot = tag0

\* C15: a dropped handle whose exist flag was set ran neither the payload's
\* custom_drop nor share_heap_dealloc; any other dropped handle ran the
\* payload's custom_drop once and then share_heap_dealloc once.
C15_DropRunsDestructorOnce ==
  rref_state = "dropped" =>
    drop_log = IF exist THEN <<>> ELSE <<"value.custom_drop", "share_heap_dealloc">>

\* C15 witness: a handle that was retagged and then dropped with exist clear.
C15_Witness ==
  /\ rref_state = "dropped"
  /\ ~exist
  /\ calls # <<>>
  /\ drop_log = <<"value.custom_drop", "share_heap_dealloc">>

\* C16: once update has returned (or is about to return), every read()
\* critical section that was open when it replaced the pointer has exited,
\* and no reader inside the closure of read() holds the value it returned.
C16_UpdateWaitsForReaders ==
  \A w \in SWriters :
    /\ (s_mode[w] = "update" /\ s_pc[w] = "ret") =>
          /\ overlap[w] = {}
          /\ \A r \in InReadSection : s_ptr[r] # old_ptr[w]
    /\ finished[w].kind = "update" =>
          /\ overlap[w] = {}
          /\ \A r \in InReadSection : s_ptr[r] # finished[w].old

\* C16 witness: an update has returned whose synchronize_srcu had to wait for
\* a reader, and a reader is again inside read(), on the new value.
C16_Witness ==
  \E w \in SWriters, r \in SReaders :
    /\ finished[w].kind = "update"
    /\ waited_for[w] # {}
    /\ r \in InReadSection
    /\ s_pc[r] = "in_f"
    /\ s_ptr[r] = finished[w].new
    /\ loaded_at[r] = finished[w].idx
    /\ Len(installs) = finished[w].idx

\* C17 (as claimed): a reader is passed the value that was installed when it
\* loaded the pointer; after an update or update_directly of v returned, with
\* no later install, the cell holds v and readers that loaded since are passed
\* v; and the call returned the value installed immediately before v.
C17_ReadSeesLastInstalled ==
  /\ data_ptr = installs[Len(installs)]
  /\ \A r \in SReaders :
        s_pc[r] = "in_f" => s_ptr[r] = installs[loaded_at[r]]
  /\ \A w \in SWriters :
        finished[w] # NoCall =>
          /\ finished[w].idx = Len(installs) =>
                /\ data_ptr = finished[w].new
                /\ \A r \in SReaders :
                      (s_pc[r] = "in_f" /\ loaded_at[r] = finished[w].idx)
                        => s_ptr[r] = finished[w].new
          /\ finished[w].old = installs[finished[w].idx - 1]

\* Keys of a registry whose entry carries the name.
KeysNamed(list, name) == {k \in DOMAIN list : list[k].name = name}

\* C18 (as claimed): right after a sys_update_domain returned Ok the registry
\* has no entry under the id the name was registered under, has an entry
\* under the new id with the old name and panic count 0, has exactly one
\* entry with that name, and every other entry is as it was.
C18_RegistryAfterUpdate ==
  LET u == last_update IN
    u.by # NoThread =>
      /\ KeysNamed(u.before, u.name) \cap (DOMAIN u.after) \subseteq {u.id}
      /\ u.id \in DOMAIN u.after
      /\ u.after[u.id] = [name |-> u.name, panic_count |-> 0]
      /\ KeysNamed(u.after, u.name) = {u.id}
      /\ \A k \in (DOMAIN u.before) \ KeysNamed(u.before, u.name) :
            k \in DOMAIN u.after /\ u.after[k] = u.before[k]
      /\ (DOMAIN u.after) \ {u.id} \subseteq DOMAIN u.before

\* The name resolves to no domain of the registry.
UnknownName(name) == KeysNamed(domain_list, name) = {}

\* C19: a sys_update_domain call entered with a name that resolves to no
\* domain ends in that step with EINVAL: no id is allocated, no replace is
\* entered, and the registry, the installed implementation, the flag, the
\* locks and the loader record are unchanged.
C19_UnknownNameEINVAL ==
  [][\A u \in Updaters :
       (pc[u] = "u_idle" /\ started' # started /\ loc'[u] # loc[u]
          /\ UnknownName(loc'[u].name))
         => /\ loc'[u].result = "EINVAL"
            /\ pc'[u] = "u_idle"
            /\ UNCHANGED <<next_id, domain_list, domain, flag, lock, loader_lock, loader,
                           counter, released>>]_vars

\* C19 witness: a call with the unregistered name has returned EINVAL.
C19_Witness ==
  \E u \in Updaters :
    /\ pc[u] = "u_idle"
    /\ loc[u].result = "EINVAL"
    /\ UnknownName(loc[u].name)
    /\ domain = InitialImpl
    /\ next_id = 2

\* C20 (as claimed): a sys_update_domain whose new file cannot be loaded does
\* not return Ok (it returns ENOENT).
C20_UnloadableReturnsENOENT ==
  last_update.by # NoThread => ~last_update.new.empty

\* drop_domain_share_data (rref.rs:67-71): drop.get(&id).unwrap().
DropDomainShareData(reg, id) == IF id \in DOMAIN reg THEN reg[id].drop_fn ELSE "panic"

C21_TypeRegistered ==
  /\ \A i \in 1..Len(heap) : DropDomainShareData(drop_registry, heap[i].type) = heap[i].type
  /\ \A k \in Ctors :
        n_pc[k] \in {"alloc", "write", "done"} =>
          DropDomainShareData(drop_registry, n_args[k].type) = n_args[k].type

C21_EntriesKept ==
  \A ty \in DOMAIN drop_registry :
    ty \in DOMAIN drop_registry' /\ drop_registry'[ty] = drop_registry[ty]

\* C21: in every state the destructor lookup of every block of the shared
\* heap, and of the type of every construction past its registration, finds
\* the destructor of that type; and no step changes or removes an entry the
\* registry already has.
C21_RegisteredBeforeAlloc == []C21_TypeRegistered /\ [][C21_EntriesKept]_vars

\* C21 witness: both threads allocated a block of the same type; the entry is
\* the one the first of them registered.
C21_Witness ==
  /\ Len(heap) = 2
  /\ heap[1].type = heap[2].type
  /\ heap[1].by # heap[2].by
  /\ drop_registry[heap[1].type].by = heap[1].by

\* C22: a constructor that returned gave a handle with exist false on a block
\* whose tag is the id of the constructing domain and whose payload is written
\* exactly for new / new_aligned; one whose allocation failed panicked and
\* holds no handle and no block.
C22_ConstructedHandle ==
  \A k \in Ctors :
    /\ n_pc[k] = "done" =>
          /\ n_handle[k].block \in 1..Len(heap)
          /\ ~n_handle[k].exist
          /\ heap[n_handle[k].block].tag = n_args[k].domain
          /\ heap[n_handle[k].block].written <=> n_args[k].variant \in {"new", "new_aligned"}
          /\ heap[n_handle[k].block].type = n_args[k].type
    /\ n_pc[k] = "panicked" =>
          /\ n_handle[k] = NoHandle
          /\ \A i \in 1..Len(heap) : heap[i].by = k => heap[i].tag # 0

\* C22 witness: one thread returned from new_uninit, the other panicked on a
\* failed allocation.
C22_Witness ==
  \E k, j \in Ctors :
    /\ n_pc[k] = "done"
    /\ n_args[k].variant = "new_uninit"
    /\ ~heap[n_handle[k].block].written
    /\ n_pc[j] = "panicked"

\* C23: while a replace is between update_directly and its return, the old
\* implementation it took out has not been destructed; no release is requested
\* up to line 373, and from there on exactly one, for (id of the removed
\* implementation, NotFree(id of the installed one)), made while both locks are
\* held and before the loader record is replaced.
C23_OneReleaseOldNotDestroyed ==
  \A u \in Updaters :
    /\ pc[u] \in {"r_update", "r_clear", "r_free"} => loc[u].requests = <<>>
    /\ pc[u] \in {"r_clear", "r_free", "r_store", "r_unlock_w", "r_unlock_l", "u_registry"} =>
          loc[u].old_domain \notin loc[u].destructed
    /\ pc[u] \in {"r_store", "r_unlock_w", "r_unlock_l", "u_registry"} =>
          loc[u].requests = <<[id |-> DomainIdOf(loc[u].old_domain),
                               free_shared |-> "NotFree",
                               new_owner |-> DomainIdOf(loc[u].new)]>>
    /\ pc[u] = "r_store" =>
          /\ lock = u
          /\ loader_lock = u
          /\ loader # loc[u].new.uid

\* C23 witness: a replace that took out the initial implementation has made
\* its request and has not yet stored the loader.
C23_Witness ==
  \E u \in Updaters :
    /\ pc[u] = "r_store"
    /\ loc[u].old_domain = InitialImpl
    /\ Len(loc[u].requests) = 1
    /\ domain = loc[u].new

\* A thread is inside a proxy call.
InCall(t) ==
  pc[t] \in {"flag", "inc", "lock_wait", "ptr_fast", "ptr_lock",
             "impl_fast", "impl_lock", "impl_direct"}

\* Fast-path calls that have incremented and not yet decremented.
Inflight == {t \in Threads : pc[t] \in {"ptr_fast", "impl_fast"}}

RECURSIVE SumOver(_, _)
SumOver(f, S) ==
  IF S = {} THEN 0 ELSE LET c == CHOOSE x \in S : TRUE IN f[c] + SumOver(f, S \ {c})

\* C24 (as claimed): the sum of the inflight shards is the number of
\* fast-path calls between their increment and their decrement; it is never
\* negative, and it is 0 when no thread is inside a proxy call.
C24_InflightSum ==
  /\ SumOver(counter, CPUs) = Cardinality(Inflight)
  /\ SumOver(counter, CPUs) >= 0
  /\ (\A t \in Threads : ~InCall(t)) => SumOver(counter, CPUs) = 0

\* C25 (as claimed): upgrading is true only while some replace holds both
\* loader_lock and write_lock; with write_lock free or held by a locked-path
\* call it is false.
C25_FlagOnlyUnderBothLocks ==
  flag => \E u \in Updaters : lock = u /\ loader_lock = u /\ ReplaceHoldsWrite(u)

\* C26 (as claimed): once two sys_update_domain calls on the same name have
\* both returned Ok, the registry has exactly one entry with that name, under
\* the id the proxy's domain_id() then returns.
C26_OneEntryAfterTwoUpdates ==
  (\A u \in Updaters : pc[u] = "u_idle" /\ loc[u].result = "Ok")
    => KeysNamed(domain_list, "nd") = {DomainIdOf(domain)}

\* C27 (as claimed): the self.domain_id() call of replace finds upgrading
\* false and runs on the fast path, never waiting for the write_lock its own
\* thread holds, and when it has returned it is no longer counted in inflight.
C27_ReplaceOwnCallFastPath ==
  \A u \in Updaters :
    /\ (site[u] = "replace" /\ InCall(u)) =>
          /\ pc[u] \in {"flag", "inc", "ptr_fast", "impl_fast"}
          /\ pc[u] = "flag" => ~flag
    /\ pc[u] = "r_setflag" =>
          SumOver(counter, CPUs) = Cardinality(Inflight \ {u})

\* C28 (as claimed): no value is returned as the old value by the calls of
\* two writers, and the cell's current pointer is not a value a call has
\* returned as old.
C28_OldReturnedOnce ==
  /\ \A w, v \in SWriters :
        (w # v /\ finished[w] # NoCall /\ finished[v] # NoCall)
          => finished[w].old # finished[v].old
  /\ \A w \in SWriters : finished[w] # NoCall => data_ptr # finished[w].old

\* Occurrences of event e in a log.
Occurrences(log, e) == Cardinality({i \in 1..Len(log) : log[i] = e})

\* C29 (as claimed): when a handle whose exist flag is false has been
\* dropped, the explicit custom_drop calls made on it and its drop have
\* together run the payload's custom destructor at most once and released the
\* block at most once.
C29_DestroyedAtMostOnce ==
  (rref_state = "dropped" /\ ~exist) =>
    /\ Occurrences(custom_log \o drop_log, "value.custom_drop") <= 1
    /\ Occurrences(custom_log \o drop_log, "share_heap_dealloc") <= 1

====
